---- MODULE Spec2Model ----
(***************************************************************************)
(* The innernet client's fetch cycle (client/src/main.rs): one cycle reads *)
(* the desired peer list from the authority and the peers configured on    *)
(* the live WireGuard interface, builds a device configuration change      *)
(* (peers to add or modify, peers to remove), applies it, rewrites the     *)
(* hosts file and persists the fetched state.  `up` repeats the cycle in   *)
(* daemon mode.  `show` prints the peers of the device, sorted, or the     *)
(* tree of the stored CIDRs.                                               *)
(***************************************************************************)
EXTENDS Integers, Sequences, FiniteSets, TLC

(***************************************************************************)
(* Bounds of the model.                                                    *)
(***************************************************************************)
\* longest peer list the authority returns in the single-cycle specification
MaxPeers == 2
\* width of an address in bits: a CIDR has a prefix of 0..AddrBits bits
AddrBits == 2
\* longest CIDR list of a snapshot in the tree specification
MaxCidrs == 3
\* most peers configured on the live interface at the start
MaxDevicePeers == 2
\* most fetch cycles started in one behaviour of the control-loop specification
MaxCycles == 3

(***************************************************************************)
(* Values.  Public keys are base64 strings; "k0" is the key of the local   *)
(* interface.  A peer has three mutable attributes; the attribute values   *)
(* are drawn from a base configuration and the configurations that differ  *)
(* from it in exactly one attribute, so two configurations differ in one   *)
(* or in two attributes.                                                   *)
(***************************************************************************)
InterfaceKey == "k0"

\* the name of the interface the command is given
Interface == "wg0"

Keys == {"k0", "k1", "k2"}

\* a public key the authority sends that is shorter than a WireGuard key
ShortKey == "ks"

\* the text of a public key, character by character: the base64 text of a
\* WireGuard key is longer than the printed prefix, ShortKey is not
KeyText(public_key) ==
    IF public_key = ShortKey THEN <<"k", "s">>
    ELSE <<public_key, "A", "B", "C", "D", "E", "F", "G", "H", "I", "J", "K">>

\* peer.contents.name
Names == [k \in Keys \cup {ShortKey, "k3"} |->
            CASE k = "k0" -> "self" [] k = "k1" -> "alice" [] k = "k2" -> "bob"
              [] k = "k3" -> "carol" [] OTHER -> "short"]

Fields == {"endpoint", "allowed_ips", "persistent_keepalive_interval"}

BaseConfig ==
    [endpoint |-> "E1", allowed_ips |-> "10.0.0.1", persistent_keepalive_interval |-> "off"]

OtherConfig ==
    [endpoint |-> "E2", allowed_ips |-> "10.0.0.2", persistent_keepalive_interval |-> "25"]

Configs == {BaseConfig} \cup {[BaseConfig EXCEPT ![f] = OtherConfig[f]] : f \in Fields}

\* shared::Peer as the authority sends it (ip is the address PeerConfigBuilder
\* turns into the peer's allowed ip)
MkPeer(k, d, c) ==
    [public_key |-> k, name |-> Names[k], cidr_id |-> 1, is_disabled |-> d,
     endpoint |-> c.endpoint,
     allowed_ips |-> c.allowed_ips,
     persistent_keepalive_interval |-> c.persistent_keepalive_interval]

\* the peers the authority may list: every other key in every configuration
\* and disabled, the entry of the local interface itself, and a peer whose
\* public key is too short
DesiredPeers ==
    {MkPeer(k, FALSE, c) : k \in Keys \ {InterfaceKey}, c \in Configs}
        \cup {MkPeer(k, TRUE, BaseConfig) : k \in Keys \ {InterfaceKey}}
        \cup {MkPeer(InterfaceKey, FALSE, BaseConfig)}
        \cup {MkPeer(ShortKey, FALSE, BaseConfig)}

\* wgctrl::PeerConfig of a peer configured on the live interface
MkPeerConfig(k, c) ==
    [public_key |-> k, endpoint |-> c.endpoint, allowed_ips |-> c.allowed_ips,
     persistent_keepalive_interval |-> c.persistent_keepalive_interval]

DevicePeers ==
    {MkPeerConfig(k, c) : k \in Keys \ {InterfaceKey}, c \in Configs}
        \cup {MkPeerConfig(InterfaceKey, BaseConfig)}

SeqsUpTo(S, n) == UNION {[1..m -> S] : m \in 0..n}

UniqueKeys(set) == \A a, b \in set : a.public_key = b.public_key => a = b

\* the kernel keeps one peer per public key
Devices ==
    {d \in SUBSET DevicePeers : Cardinality(d) <= MaxDevicePeers /\ UniqueKeys(d)}

PeerLists == SeqsUpTo(DesiredPeers, MaxPeers)

\* shared::Cidr: a network (its first address and its prefix length) with an
\* id and a name
Pow2(n) == IF n = 0 THEN 1 ELSE IF n = 1 THEN 2 ELSE IF n = 2 THEN 4
           ELSE IF n = 3 THEN 8 ELSE IF n = 4 THEN 16 ELSE 32

Networks ==
    {n \in [addr : 0..(Pow2(AddrBits) - 1), prefix : 0..AddrBits] :
        n.addr % Pow2(AddrBits - n.prefix) = 0}

MkCidr(id, addr, prefix) ==
    [id |-> id, name |-> <<"cidr", id>>, cidr |-> [addr |-> addr, prefix |-> prefix]]

RootCidr == MkCidr(1, 0, 0)

ChildCidr == MkCidr(2, 0, 1)

(***************************************************************************)
(* fetch, lines 299-324: the peers to add or to modify.                    *)
(***************************************************************************)
Range(s) == {s[i] : i \in 1..Len(s)}

WantedIgnoringDisabled(peer, interface_public_key) ==
    peer.public_key # interface_public_key

WantedIgnoringSelf(peer, interface_public_key) == ~peer.is_disabled

\* line 301: .filter(|peer| !peer.is_disabled && peer.public_key != interface_public_key)
Wanted(peer, interface_public_key) ==
    ~peer.is_disabled /\ peer.public_key # interface_public_key

Filtered(peers, interface_public_key) ==
    SelectSeq(peers, LAMBDA peer : Wanted(peer, interface_public_key))

\* lines 303-305: existing_peers.iter().find(|p| p.config.public_key.to_base64() == peer.public_key)
\* (none or one: the set is empty or a singleton)
ExistingPeer(existing_peers, public_key) ==
    {p \in existing_peers : p.public_key = public_key}

\* Peer::diff: the attributes of the desired peer that differ from the configured
\* peer, with the desired values; no diff (the empty set) when none differs
ChangedFields(peer, config) == {f \in Fields : peer[f] # config[f]}

Diff(peer, config) ==
    IF ChangedFields(peer, config) = {}
    THEN {}
    ELSE {[public_key |-> peer.public_key,
           fields |-> [f \in ChangedFields(peer, config) |-> peer[f]]]}

ChangeFullRewrite(peer, existing_peers) ==
    LET found == ExistingPeer(existing_peers, peer.public_key) IN
    IF found # {}
    THEN {[text |-> "modified", peer |-> peer, public_key |-> d.public_key,
           fields |-> [f \in Fields |-> peer[f]]] :
             d \in Diff(peer, CHOOSE e \in found : TRUE)}
    ELSE {[text |-> "added", peer |-> peer, public_key |-> peer.public_key,
           fields |-> [f \in Fields |-> peer[f]]]}

\* lines 307-312: the change for one wanted peer (none or one), the tuple
\* (builder, peer, text); public_key and fields are the builder's
\*   Some(existing) => diff => PeerConfigBuilder::from(&diff), "modified"
\*   None           => PeerConfigBuilder::from(peer), "added"
Change(peer, existing_peers) ==
    LET found == ExistingPeer(existing_peers, peer.public_key) IN
    IF found # {}
    THEN {[text |-> "modified", peer |-> peer, public_key |-> d.public_key,
           fields |-> d.fields] : d \in Diff(peer, CHOOSE e \in found : TRUE)}
    ELSE {[text |-> "added", peer |-> peer, public_key |-> peer.public_key,
           fields |-> [f \in Fields |-> peer[f]]]}

\* lines 299-324: filter, filter_map, collect (the order of the fetched list is kept)
PeerConfigsDiff(peers, interface_public_key, existing_peers) ==
    LET kept == SelectSeq(Filtered(peers, interface_public_key),
                          LAMBDA peer : Change(peer, existing_peers) # {})
    IN  [i \in 1..Len(kept) |-> CHOOSE c \in Change(kept[i], existing_peers) : TRUE]

(***************************************************************************)
(* fetch, lines 334-347: the peers to remove.                              *)
(***************************************************************************)
UnknownAmongWanted(peers, public_key) ==
    \A i \in 1..Len(peers) :
        Wanted(peers[i], InterfaceKey) => peers[i].public_key # public_key

\* line 336: peers.iter().find(|p| p.public_key == public_key).is_none()
Unknown(peers, public_key) == \A i \in 1..Len(peers) : peers[i].public_key # public_key

RemovedKeys(peers, existing_peers) ==
    {p.public_key : p \in {e \in existing_peers : Unknown(peers, e.public_key)}}

\* lines 326-347: the DeviceConfigBuilder and the device_config_changed flag
DeviceConfig(peers, interface_public_key, existing_peers) ==
    [peers |-> PeerConfigsDiff(peers, interface_public_key, existing_peers),
     remove |-> RemovedKeys(peers, existing_peers)]

(***************************************************************************)
(* fetch, lines 314-322 and 337-341: the printed change lines.  A line     *)
(* names the peer by a prefix of its public key; slicing a key shorter     *)
(* than the prefix panics.                                                 *)
(***************************************************************************)
\* lines 318 and 339: [..10]
FingerprintLen == 10

Sliceable(public_key) == Len(KeyText(public_key)) >= FingerprintLen

FingerprintWholeKey(public_key) == KeyText(public_key)

\* &public_key[..10]
Fingerprint(public_key) == SubSeq(KeyText(public_key), 1, FingerprintLen)

\* lines 315-320: println!("    peer {} ({}...) was {}.", peer.name, &peer.public_key[..10], text)
ChangeLine(change) ==
    [text |-> change.text, name |-> {change.peer.name},
     key |-> Fingerprint(change.peer.public_key)]

\* lines 337-341: println!("    peer ({}...) was {}.", &public_key[..10], "removed")
RemovedLine(public_key) ==
    [text |-> "removed", name |-> {}, key |-> Fingerprint(public_key)]

\* the positions of the fetched list whose change line cannot be printed
Unprintable(peers, interface_public_key, existing_peers) ==
    {i \in 1..Len(peers) :
        /\ Wanted(peers[i], interface_public_key)
        /\ Change(peers[i], existing_peers) # {}
        /\ ~Sliceable(peers[i].public_key)}

\* the fetched list up to the first peer whose change line cannot be printed
Printable(peers, interface_public_key, existing_peers) ==
    LET bad == Unprintable(peers, interface_public_key, existing_peers) IN
    IF bad = {} THEN peers
    ELSE SubSeq(peers, 1, (CHOOSE i \in bad : \A j \in bad : i <= j) - 1)

\* the lines printed while the changes are collected: one line per change, in
\* the order of the fetched list (lines 314-322), then one line per removed
\* key, in the order of the device's peers (lines 334-342)
ChangeLines(peers, interface_public_key, existing_peers) ==
    LET diff == PeerConfigsDiff(Printable(peers, interface_public_key, existing_peers),
                                interface_public_key, existing_peers)
    IN  [i \in 1..Len(diff) |-> ChangeLine(diff[i])]

RemovedLines(peers, existing_peers) ==
    {RemovedLine(public_key) : public_key \in RemovedKeys(peers, existing_peers)}

DeviceConfigChangedAlways(config) == TRUE

DeviceConfigChanged(config) == Len(config.peers) > 0 \/ config.remove # {}

(***************************************************************************)
(* DeviceConfigBuilder::apply: the listed keys are removed, then each peer *)
(* entry in order creates the peer or overwrites the attributes it names.  *)
(***************************************************************************)
SetPeer(dev, builder) ==
    LET old == ExistingPeer(dev, builder.public_key) IN
    IF old = {}
    THEN dev \cup {[public_key |-> builder.public_key] @@
                   [f \in Fields |-> IF f \in DOMAIN builder.fields
                                     THEN builder.fields[f] ELSE "unset"]}
    ELSE LET e == CHOOSE x \in old : TRUE IN
         (dev \ old) \cup {[public_key |-> e.public_key] @@
                           [f \in Fields |-> IF f \in DOMAIN builder.fields
                                             THEN builder.fields[f] ELSE e[f]]}

RECURSIVE SetPeers(_, _)
SetPeers(dev, builders) ==
    IF builders = <<>> THEN dev
    ELSE SetPeers(SetPeer(dev, Head(builders)), Tail(builders))

ApplyConfig(dev, config) ==
    SetPeers({e \in dev : e.public_key \notin config.remove}, config.peers)

(***************************************************************************)
(* show, lines 575-588: the peers of the device are sorted by last         *)
(* handshake time, latest first, then by the address the store has for     *)
(* them.                                                                   *)
(***************************************************************************)
\* the order of IpAddr: the addresses of the model differ in the last octet
IpNumber(ip) ==
    CASE ip = "10.0.0.1" -> 1 [] ip = "10.0.0.2" -> 2 [] ip = "10.0.0.3" -> 3

\* lines 578-582: peers.iter().find(|p| p.public_key == ..) (none or one: the
\* first entry of the store's list with the key)
OurPeer(store_peers, public_key) ==
    LET found == {i \in 1..Len(store_peers) : store_peers[i].public_key = public_key} IN
    IF found = {} THEN {}
    ELSE {store_peers[CHOOSE i \in found : \A j \in found : i <= j]}

\* the order of Option<SystemTime>: None is less than Some, Some by the time
\* (an Option is the empty set or a singleton)
OptionLess(x, y) ==
    \/ x = {} /\ y # {}
    \/ x # {} /\ y # {} /\ (CHOOSE t \in x : TRUE) < (CHOOSE t \in y : TRUE)

SortKeyLessByAddressOnly(a, b) == a.ip < b.ip

\* lines 584-587: (Reverse(last_handshake_time), our_peer.ip), compared as a
\* tuple; Reverse turns the order of its content around
SortKeyLess(a, b) ==
    \/ OptionLess(b.last_handshake_time, a.last_handshake_time)
    \/ a.last_handshake_time = b.last_handshake_time /\ a.ip < b.ip

\* the sort key of a device peer (its peer in the store is there)
SortKey(peer, stats, store_peers) ==
    [last_handshake_time |-> stats[peer.public_key],
     ip |-> IpNumber((CHOOSE p \in OurPeer(store_peers, peer.public_key) : TRUE).allowed_ips)]

\* sort_by_key is a stable sort: an element goes behind the elements whose key
\* is not greater than its own
RECURSIVE Insert(_, _, _, _)
Insert(sorted, peer, stats, store_peers) ==
    IF sorted = <<>> THEN <<peer>>
    ELSE IF SortKeyLess(SortKey(peer, stats, store_peers),
                        SortKey(Head(sorted), stats, store_peers))
    THEN <<peer>> \o sorted
    ELSE <<Head(sorted)>> \o Insert(Tail(sorted), peer, stats, store_peers)

RECURSIVE SortByKey(_, _, _)
SortByKey(device_peers, stats, store_peers) ==
    IF device_peers = <<>> THEN <<>>
    ELSE Insert(SortByKey(SubSeq(device_peers, 1, Len(device_peers) - 1), stats, store_peers),
                device_peers[Len(device_peers)], stats, store_peers)

(***************************************************************************)
(* CidrTree: the parent of a CIDR is the CIDR with the smallest range that *)
(* strictly contains it; a CIDR that none contains is a root.              *)
(***************************************************************************)
\* the first and the last address of a network: the prefix bits of addr are
\* fixed
First(network) == network.addr - (network.addr % Pow2(AddrBits - network.prefix))

Last(network) == First(network) + Pow2(AddrBits - network.prefix) - 1

StrictlyContains(outer, inner) ==
    /\ First(outer.cidr) <= First(inner.cidr)
    /\ Last(inner.cidr) <= Last(outer.cidr)
    /\ (First(outer.cidr) # First(inner.cidr) \/ Last(outer.cidr) # Last(inner.cidr))

Overlap(a, b) == First(a.cidr) <= Last(b.cidr) /\ First(b.cidr) <= Last(a.cidr)

\* two CIDRs of the list share addresses and neither strictly contains the other
InvalidCidrs(list) ==
    \E i, j \in 1..Len(list) :
        /\ i # j
        /\ Overlap(list[i], list[j])
        /\ ~StrictlyContains(list[i], list[j])
        /\ ~StrictlyContains(list[j], list[i])

ParentAnyContainer(node, list) ==
    LET containers == {c \in Range(list) : StrictlyContains(c, node)} IN
    IF containers = {} THEN {} ELSE {CHOOSE c \in containers : TRUE}

\* none or one: the container that every other container contains
Parent(node, list) ==
    LET containers == {c \in Range(list) : StrictlyContains(c, node)} IN
    {c \in containers : \A d \in containers : d = c \/ StrictlyContains(d, c)}

\* the tree as built: every CIDR of the list with its parent
CidrTree(list) == [i \in 1..Len(list) |-> [node |-> list[i], parent |-> Parent(list[i], list)]]

\* the nodes of a built tree that have this parent (none: {}), in the order of
\* the list
NodesWithParent(tree, parent) ==
    LET entries == SelectSeq(tree, LAMBDA e : e.parent = parent) IN
    [i \in 1..Len(entries) |-> entries[i].node]

Roots(tree) == NodesWithParent(tree, {})

\* children(): the immediate children of a node
Children(node, tree) == NodesWithParent(tree, {node})

(***************************************************************************)
(* State.                                                                  *)
(***************************************************************************)
VARIABLES
    device,           \* peers configured on the live interface (DeviceInfo.peers)
    interface_up,     \* the interface is among DeviceInfo::enumerate()
    snapshot,         \* the persisted DataStore of the interface
    hosts,            \* the peer list last written to the hosts file
    command,          \* the command of the running process: "fetch", "up", "daemon"
    pc,               \* position of the process inside fetch / up
    exit_code,        \* {} while a process runs, else the status of the last one
    peers,            \* fetch: the peer list returned by http_get
    cidrs,            \* fetch: the CIDR list returned by http_get
    existing_peers,   \* fetch: device_info.peers
    device_config,    \* fetch: the DeviceConfigBuilder
    output,           \* fetch: the change lines printed by this cycle
    calls,            \* fetch: the collaborator calls of this cycle, in order
    error,            \* fetch: the step whose error was returned ("" if none)
    before,           \* the live peers and the snapshot when this cycle started
    previous,         \* the cycle before this one: its list, calls, error and device
    cycles,           \* fetch cycles started so far
    handshakes,       \* last handshake time of the device's peers (PeerInfo.stats)
    shown             \* show: what the last show printed

vars ==
    <<device, interface_up, snapshot, hosts, command, pc, exit_code, peers, cidrs,
      existing_peers, device_config, output, calls, error, before, previous, cycles,
      handshakes, shown>>

persistent == <<device, interface_up, snapshot, hosts>>

locals == <<peers, cidrs, existing_peers, device_config, output, calls, error>>

history == <<before, previous, cycles>>

display == <<handshakes, shown>>

NoSnapshot == [exists |-> FALSE, peers |-> <<>>, cidrs |-> <<>>]

NoHosts == [written |-> FALSE, peers |-> <<>>, entries |-> <<>>]

NoConfig == [peers |-> <<>>, remove |-> {}]

NoOutput == [changes |-> <<>>, removed |-> {}]

\* nothing shown yet
NotShown == [status |-> "none", interface |-> <<>>, peers |-> <<>>, cidr_tree |-> <<>>,
             tree |-> <<>>]

ShowKeys == {"k1", "k2", "k3"}

NoHandshakes == [k \in ShowKeys |-> {}]

NoCycle == [ran |-> FALSE, peers |-> <<>>, calls |-> <<>>, error |-> "", device |-> {}]

\* the peer lists and devices of the control-loop specification: k1 enabled,
\* disabled or with another endpoint, alone or followed by k2
LoopPeers ==
    {MkPeer("k1", FALSE, BaseConfig), MkPeer("k1", TRUE, BaseConfig),
     MkPeer("k1", FALSE, [BaseConfig EXCEPT !.endpoint = "E2"])}

LoopLists ==
    {<<>>, <<MkPeer("k2", FALSE, BaseConfig)>>}
        \cup {<<p>> : p \in LoopPeers}
        \cup {<<p, MkPeer("k2", FALSE, BaseConfig)>> : p \in LoopPeers}

\* the CIDR list the authority returns in the control-loop and in the
\* single-cycle specification
LoopCidrLists == {<<RootCidr>>}

PlanCidrLists == {<<RootCidr, ChildCidr>>}

\* the peer lists and the CIDR lists of the snapshot specification
StoreLists ==
    {<<>>, <<MkPeer("k1", FALSE, BaseConfig)>>,
     <<MkPeer("k1", TRUE, BaseConfig), MkPeer("k2", FALSE, BaseConfig)>>}

StoreCidrLists == {<<>>, <<RootCidr>>, <<RootCidr, ChildCidr>>}

LoopDevices ==
    {d \in SUBSET {MkPeerConfig("k1", BaseConfig), MkPeerConfig("k2", BaseConfig)} : TRUE}

BringUpAnyCommand == command \in {"fetch", "up", "daemon"}

\* run, lines 733-738: Fetch calls fetch(interface, false), Up calls up, which
\* calls fetch(interface, true)
BringUpInterface == command \in {"up", "daemon"}

Called(log, name) == \E i \in 1..Len(log) : log[i].call = name

Succeeded(log, name) == \E i \in 1..Len(log) : log[i].call = name /\ log[i].ok

StartCycle ==
    /\ pc' = "from_interface"
    /\ exit_code' = {}
    /\ peers' = <<>>
    /\ cidrs' = <<>>
    /\ existing_peers' = {}
    /\ device_config' = NoConfig
    /\ output' = NoOutput
    /\ calls' = <<>>
    /\ error' = ""
    /\ before' = [device |-> device, snapshot |-> snapshot]
    /\ previous' = IF cycles = 0 THEN NoCycle
                   ELSE [ran |-> TRUE, peers |-> peers, calls |-> calls, error |-> error,
                         device |-> before.device]
    /\ cycles' = cycles + 1

\* main and run, lines 706-738: a process is started with one of the commands
Run(cmd) ==
    /\ pc = "idle"
    /\ cycles < MaxCycles
    /\ command' = cmd
    /\ StartCycle
    /\ UNCHANGED <<persistent, display>>

FailSkipToNextInterval(step) ==
    /\ error' = step
    /\ IF command = "daemon"
       THEN pc' = "sleep" /\ exit_code' = {}
       ELSE pc' = "idle" /\ exit_code' = {1}

\* an error is returned by fetch (`?`), by up (line 246) and by run; main prints
\* it and exits with status 1 (lines 709-712)
Fail(step) ==
    /\ error' = step
    /\ pc' = "idle"
    /\ exit_code' = {1}

TryIgnoringApplyError(step, ok) == ok \/ step = "apply"

TryIgnoringHostsError(step, ok) == ok \/ step = "update_hosts_file"

\* the `?` after a call: Ok lets fetch go on, Err is returned at once
Try(step, ok) == ok

ReturnAlwaysSleeps == pc' = "sleep" /\ exit_code' = {}

\* fetch returned Ok: up sleeps in daemon mode and leaves the loop otherwise
\* (lines 247-250); run and main return, the process ends with status 0
Return ==
    IF command = "daemon"
    THEN pc' = "sleep" /\ exit_code' = {}
    ELSE pc' = "idle" /\ exit_code' = {0}

\* line 257: InterfaceConfig::from_interface(interface)?
FromInterface ==
    /\ pc = "from_interface"
    /\ \E ok \in BOOLEAN :
         IF Try("from_interface", ok) THEN pc' = "enumerate" /\ UNCHANGED <<exit_code, error>>
         ELSE Fail("from_interface")
    /\ UNCHANGED <<persistent, command, peers, cidrs, existing_peers, device_config,
                   output, calls, history, display>>

\* wg::up: a successful bring-up leaves the interface among the live devices
InterfaceAfterUp == TRUE

\* lines 258-285: is the interface up; if not, fail or bring it up with wg::up
Enumerate ==
    /\ pc = "enumerate"
    /\ \E enumerated \in BOOLEAN, ok \in BOOLEAN :
         LET seen_up == enumerated /\ interface_up IN
         IF seen_up
         THEN /\ ok
              /\ pc' = "open_or_create"
              /\ UNCHANGED <<interface_up, exit_code, error>>
         ELSE IF ~BringUpInterface
         THEN /\ ok
              /\ Fail("interface_not_up")
              /\ UNCHANGED interface_up
         ELSE IF Try("wg_up", ok)
         THEN /\ interface_up' = InterfaceAfterUp
              /\ pc' = "open_or_create"
              /\ UNCHANGED <<exit_code, error>>
         ELSE /\ Fail("wg_up")
              /\ UNCHANGED interface_up
    /\ UNCHANGED <<device, snapshot, hosts, command, peers, cidrs, existing_peers,
                   device_config, output, calls, history, display>>

\* DataStore::open_or_create loads the persisted snapshot or starts from an
\* empty one in memory; what is persisted stays as it is until write
PersistedAfterOpen(persisted) == persisted

\* DataStore::set_cidrs, add_peers, write: the fetched lists replace the
\* snapshot wholesale
PersistedAfterWrite(persisted, fetched) ==
    [exists |-> TRUE, peers |-> fetched.peers, cidrs |-> fetched.cidrs]

\* line 288: DataStore::open_or_create(&interface)?
OpenOrCreate ==
    /\ pc = "open_or_create"
    /\ \E ok \in BOOLEAN :
         /\ snapshot' = IF ok THEN PersistedAfterOpen(snapshot) ELSE snapshot
         /\ IF Try("open_or_create", ok)
            THEN pc' = "http_get" /\ UNCHANGED <<exit_code, error>>
            ELSE Fail("open_or_create")
    /\ UNCHANGED <<device, interface_up, hosts, command, peers, cidrs, existing_peers,
                   device_config, output, calls, history, display>>

\* line 289: http_get(&config.server.internal_endpoint, "/user/state")?
\* (lists, cidr_lists: the peer lists and the CIDR lists the authority may return)
HttpGet(lists, cidr_lists) ==
    /\ pc = "http_get"
    /\ \/ /\ Try("http_get", TRUE)
          /\ \E list \in lists : peers' = list
          /\ \E list \in cidr_lists : cidrs' = list
          /\ pc' = "get_by_name"
          /\ UNCHANGED <<exit_code, error>>
       \/ /\ ~Try("http_get", FALSE)
          /\ Fail("http_get")
          /\ UNCHANGED <<peers, cidrs>>
    /\ UNCHANGED <<persistent, command, existing_peers, device_config, output, calls,
                   history, display>>

\* lines 291-297: DeviceInfo::get_by_name(&interface)?
GetByName ==
    /\ pc = "get_by_name"
    /\ \/ /\ Try("get_by_name", TRUE)
          /\ existing_peers' = device
          /\ pc' = "reconcile"
          /\ UNCHANGED <<exit_code, error>>
       \/ /\ ~Try("get_by_name", FALSE)
          /\ Fail("get_by_name")
          /\ UNCHANGED existing_peers
    /\ UNCHANGED <<persistent, command, peers, cidrs, device_config, output, calls,
                   history, display>>

AfterReconcileAlwaysHosts(config) ==
    IF DeviceConfigChanged(config) THEN "apply" ELSE "update_hosts_file"

\* lines 349-361: if device_config_changed { apply; update_hosts_file } else { .. }
AfterReconcile(config) == IF DeviceConfigChanged(config) THEN "apply" ELSE "store"

\* lines 299-349: the changes are collected into the DeviceConfigBuilder; the
\* device and the hosts file are touched only if device_config_changed
\* (a change line that cannot be printed panics: the lines before it are out,
\* the process is aborted with status 101)
Reconcile ==
    /\ pc = "reconcile"
    /\ IF Unprintable(peers, InterfaceKey, existing_peers) = {}
       THEN /\ device_config' = DeviceConfig(peers, InterfaceKey, existing_peers)
            /\ output' = [changes |-> ChangeLines(peers, InterfaceKey, existing_peers),
                          removed |-> RemovedLines(peers, existing_peers)]
            /\ pc' = AfterReconcile(device_config')
            /\ UNCHANGED <<exit_code, error>>
       ELSE /\ output' = [changes |-> ChangeLines(peers, InterfaceKey, existing_peers),
                          removed |-> {}]
            /\ error' = "panic"
            /\ pc' = "idle"
            /\ exit_code' = {101}
            /\ UNCHANGED device_config
    /\ UNCHANGED <<persistent, command, peers, cidrs, existing_peers, calls, history,
                   display>>

\* line 350: device_config_builder.apply(&interface)?
Apply ==
    /\ pc = "apply"
    /\ \E ok \in BOOLEAN :
         /\ calls' = Append(calls, [call |-> "apply", ok |-> ok])
         /\ device' = IF ok THEN ApplyConfig(device, device_config) ELSE device
         /\ IF Try("apply", ok)
            THEN pc' = "update_hosts_file" /\ UNCHANGED <<exit_code, error>>
            ELSE Fail("apply")
    /\ UNCHANGED <<interface_up, snapshot, hosts, command, peers, cidrs,
                   existing_peers, device_config, output, history, display>>

HostsPeersFiltered(fetched) == Filtered(fetched, InterfaceKey)

\* line 352: update_hosts_file(interface, &peers)?
HostsPeers(fetched) == fetched

\* lines 135-141: one hostname per peer of the list given,
\* add_hostname(peer.contents.ip, "{name}.{interface}.wg")
HostsEntries(interface, list) ==
    [i \in 1..Len(list) |->
        [ip |-> list[i].allowed_ips, hostname |-> <<list[i].name, interface, "wg">>]]

UpdateHostsFile ==
    /\ pc = "update_hosts_file"
    /\ \E ok \in BOOLEAN :
         /\ calls' = Append(calls, [call |-> "update_hosts_file", ok |-> ok])
         /\ hosts' = IF ok THEN [written |-> TRUE, peers |-> HostsPeers(peers),
                                  entries |-> HostsEntries(Interface, HostsPeers(peers))]
                    ELSE hosts
         /\ IF Try("update_hosts_file", ok)
            THEN pc' = "store" /\ UNCHANGED <<exit_code, error>>
            ELSE Fail("update_hosts_file")
    /\ UNCHANGED <<device, interface_up, snapshot, command, peers, cidrs,
                   existing_peers, device_config, output, history, display>>

StoredFiltered(fetched_peers, fetched_cidrs) ==
    [peers |-> Filtered(fetched_peers, InterfaceKey), cidrs |-> fetched_cidrs]

\* lines 362-363: store.set_cidrs(cidrs); store.add_peers(peers): the lists
\* handed to the store are the lists http_get returned
Stored(fetched_peers, fetched_cidrs) == [peers |-> fetched_peers, cidrs |-> fetched_cidrs]

\* lines 362-366: store.set_cidrs(cidrs); store.add_peers(peers)?; store.write()?
Store ==
    /\ pc = "store"
    /\ \E ok \in BOOLEAN :
         /\ calls' = Append(calls, [call |-> "write", ok |-> ok])
         /\ snapshot' = IF ok THEN PersistedAfterWrite(snapshot, Stored(peers, cidrs))
                       ELSE snapshot
         /\ IF Try("store", ok)
            THEN Return /\ UNCHANGED error
            ELSE Fail("store")
    /\ UNCHANGED <<device, interface_up, hosts, command, peers, cidrs,
                   existing_peers, device_config, output, history, display>>

\* lines 245-248: thread::sleep(interval), then the next iteration of the loop
Sleep ==
    /\ pc = "sleep"
    /\ cycles < MaxCycles
    /\ StartCycle
    /\ UNCHANGED <<persistent, command, display>>

Cycle(lists, cidr_lists) ==
    \/ FromInterface
    \/ Enumerate
    \/ OpenOrCreate
    \/ HttpGet(lists, cidr_lists)
    \/ GetByName
    \/ Reconcile
    \/ Apply
    \/ UpdateHostsFile
    \/ Store

\* no process has run yet
InitLocals ==
    /\ pc = "idle"
    /\ command = "none"
    /\ exit_code = {}
    /\ peers = <<>>
    /\ cidrs = <<>>
    /\ existing_peers = {}
    /\ device_config = NoConfig
    /\ output = NoOutput
    /\ calls = <<>>
    /\ error = ""
    /\ before = [device |-> {}, snapshot |-> NoSnapshot]
    /\ previous = NoCycle
    /\ cycles = 0
    /\ shown = NotShown

InitProcess ==
    /\ snapshot = NoSnapshot
    /\ hosts = NoHosts
    /\ InitLocals

\* the control loop: processes are started one after the other, each runs one
\* cycle or, in daemon mode, cycle after cycle
Init ==
    /\ device \in LoopDevices
    /\ interface_up \in BOOLEAN
    /\ handshakes = NoHandshakes
    /\ InitProcess

Next ==
    \/ \E cmd \in {"fetch", "up", "daemon"} : Run(cmd)
    \/ Cycle(LoopLists, LoopCidrLists)
    \/ Sleep

Spec == Init /\ [][Next]_vars

\* the control loop over few peer lists and every CIDR list
NextStore ==
    \/ \E cmd \in {"fetch", "up", "daemon"} : Run(cmd)
    \/ Cycle(StoreLists, StoreCidrLists)
    \/ Sleep

SpecStore == Init /\ [][NextStore]_vars

\* thread::sleep returns after the interval: a sleeping loop goes on
SpecLive == SpecStore /\ WF_vars(Sleep)

\* one process over every device and every peer list within the bounds
InitPlan ==
    /\ device \in Devices
    /\ interface_up \in BOOLEAN
    /\ handshakes = NoHandshakes
    /\ InitProcess

NextPlan ==
    \/ \E cmd \in {"fetch", "up"} : cycles = 0 /\ Run(cmd)
    \/ Cycle(PeerLists, PlanCidrLists)

SpecPlan == InitPlan /\ [][NextPlan]_vars

(***************************************************************************)
(* show, lines 555-604, with print_interface, print_peer and print_tree.   *)
(***************************************************************************)
\* lines 629-660: print_interface(&device_info, me, short)
InterfaceLine(me, short) ==
    IF short
    THEN [ip |-> me.allowed_ips, name |-> me.name, key |-> Fingerprint(InterfaceKey)]
    ELSE [interface |-> Interface, key |-> Fingerprint(InterfaceKey), ip |-> me.allowed_ips]

\* lines 662-704: print_peer(our_peer, &peer, short)
PeerLine(our_peer, peer, stats, short) ==
    IF short
    THEN [ip |-> peer.allowed_ips, name |-> our_peer.name,
          key |-> Fingerprint(our_peer.public_key)]
    ELSE [name |-> our_peer.name, key |-> Fingerprint(our_peer.public_key),
          ip |-> our_peer.allowed_ips, endpoint |-> our_peer.endpoint,
          last_handshake |-> stats[peer.public_key]]

PeersOfAnyCidr(node, store_peers, level) ==
    [i \in 1..Len(store_peers) |->
        [level |-> level, ip |-> store_peers[i].allowed_ips, name |-> store_peers[i].name]]

\* lines 618-626: the peers of the store whose cidr_id is the node's id
PeersOfCidr(node, store_peers, level) ==
    LET own == SelectSeq(store_peers, LAMBDA p : p.cidr_id = node.id) IN
    [i \in 1..Len(own) |-> [level |-> level, ip |-> own[i].allowed_ips, name |-> own[i].name]]

\* lines 606-627: print_tree prints the node, then the trees of its children
\* one level deeper, then the peers of the node
RECURSIVE PrintTree(_, _, _, _)
RECURSIVE PrintChildren(_, _, _, _)
PrintChildren(children, cidr_tree, store_peers, level) ==
    IF children = <<>> THEN <<>>
    ELSE PrintTree(Head(children), cidr_tree, store_peers, level)
             \o PrintChildren(Tail(children), cidr_tree, store_peers, level)

PrintTree(node, cidr_tree, store_peers, level) ==
    <<[level |-> level, cidr |-> node.cidr, name |-> node.name]>>
        \o PrintChildren(Children(node, cidr_tree), cidr_tree, store_peers, level + 1)
        \o PeersOfCidr(node, store_peers, level)

\* the orders in which the device may list its peers
Orders(peer_set) ==
    {order \in [1..Cardinality(peer_set) -> peer_set] :
        \A i, j \in 1..Cardinality(peer_set) : order[i] = order[j] => i = j}

\* lines 566-601 for the one interface: what is printed and how show ends
\* (opened: DataStore::open and DeviceInfo::get_by_name both returned Ok;
\* order: device_info.peers; cidr_tree: the tree CidrTree::new builds, root: the
\* node it returns)
ShowOutcome(short, tree, opened, order, cidr_tree, root) ==
    LET store_peers == snapshot.peers
        me == OurPeer(store_peers, InterfaceKey)
        missing == {i \in 1..Len(order) : OurPeer(store_peers, order[i].public_key) = {}}
        interface == <<InterfaceLine(CHOOSE p \in me : TRUE, short)>>
        sorted == SortByKey(order, handshakes, store_peers)
    IN  IF ~opened THEN [NotShown EXCEPT !.status = "ok"]
        ELSE IF me = {} THEN [NotShown EXCEPT !.status = "error"]
        ELSE IF Len(order) >= 2 /\ missing # {}
        THEN [NotShown EXCEPT !.status = "panic", !.interface = interface]
        ELSE IF tree
        THEN IF snapshot.cidrs = <<>> \/ InvalidCidrs(snapshot.cidrs)
             THEN [NotShown EXCEPT !.status = "panic", !.interface = interface]
             ELSE [status |-> "ok", interface |-> interface, peers |-> <<>>,
                   cidr_tree |-> cidr_tree,
                   tree |-> PrintTree(root, cidr_tree, store_peers, 1)]
        ELSE IF missing # {}
        THEN [NotShown EXCEPT !.status = "error", !.interface = interface]
        ELSE [status |-> "ok", interface |-> interface,
              peers |-> [i \in 1..Len(sorted) |->
                           PeerLine(CHOOSE p \in OurPeer(store_peers, sorted[i].public_key) :
                                        TRUE, sorted[i], handshakes, short)],
              cidr_tree |-> <<>>, tree |-> <<>>]

\* main, lines 706-713: the status of the process
ExitStatus(status) == IF status = "ok" THEN {0} ELSE IF status = "error" THEN {1} ELSE {101}

OpenCreatingStore(persisted, ok) == ok

\* line 562: DataStore::open(&name) loads the persisted snapshot and fails if
\* there is none
Open(persisted, ok) == persisted.exists /\ ok

\* run, show: one show of the interface (a behaviour has one show)
Show(short, tree) ==
    /\ pc = "idle"
    /\ shown = NotShown
    /\ command' = "show"
    /\ LET cidr_tree == CidrTree(snapshot.cidrs) IN
       \E ok \in BOOLEAN, order \in Orders(device) :
         \E root \in IF cidr_tree = <<>> THEN {RootCidr} ELSE Range(Roots(cidr_tree)) :
            shown' = ShowOutcome(short, tree, Open(snapshot, ok), order, cidr_tree, root)
    /\ exit_code' = ExitStatus(shown'.status)
    /\ UNCHANGED <<persistent, pc, locals, history, handshakes>>

\* the addresses, handshake times, devices and snapshots of the display
\* specification
Ips == {"10.0.0.1", "10.0.0.2", "10.0.0.3"}

Handshakes == {{}, {100}, {200}}

ShowPeer(public_key, ip, cidr_id) ==
    [MkPeer(public_key, FALSE, BaseConfig) EXCEPT !.allowed_ips = ip, !.cidr_id = cidr_id]

ShowList(ips) ==
    <<MkPeer(InterfaceKey, FALSE, BaseConfig), ShowPeer("k1", ips["k1"], 1),
      ShowPeer("k2", ips["k2"], 2), ShowPeer("k3", ips["k3"], 2)>>

ShowLists ==
    {ShowList(ips) : ips \in [ShowKeys -> Ips]}
        \cup {SubSeq(ShowList([k \in ShowKeys |-> "10.0.0.1"]), 1, 3),
              Tail(ShowList([k \in ShowKeys |-> "10.0.0.1"]))}

ShowDevices == {{MkPeerConfig(k, BaseConfig) : k \in ks} : ks \in SUBSET ShowKeys}

\* the CIDR list of some networks: the id of a CIDR is its place in the list
CidrList(networks) ==
    [i \in 1..Len(networks) |-> MkCidr(i, networks[i].addr, networks[i].prefix)]

\* show over every device, handshake times and stored addresses
InitShow ==
    /\ device \in ShowDevices
    /\ interface_up = TRUE
    /\ handshakes \in [ShowKeys -> Handshakes]
    /\ snapshot \in {NoSnapshot}
                     \cup {PersistedAfterWrite(NoSnapshot, Stored(list, <<RootCidr, ChildCidr>>)) :
                             list \in ShowLists}
    /\ hosts = NoHosts
    /\ InitLocals

NextShow == \E short \in BOOLEAN, tree \in BOOLEAN : Show(short, tree)

SpecShow == InitShow /\ [][NextShow]_vars

\* show --tree over every CIDR list within the bounds
InitTree ==
    /\ device = {MkPeerConfig("k1", BaseConfig)}
    /\ interface_up = TRUE
    /\ handshakes = NoHandshakes
    /\ \E n \in 0..MaxCidrs : \E networks \in [1..n -> Networks] :
          snapshot = PersistedAfterWrite(NoSnapshot,
                         Stored(ShowList([k \in ShowKeys |-> "10.0.0.2"]),
                                CidrList(networks)))
    /\ hosts = NoHosts
    /\ InitLocals

NextTree == Show(FALSE, TRUE)

SpecTree == InitTree /\ [][NextTree]_vars

TypeOK ==
    /\ UniqueKeys(device)
    /\ pc \in {"idle", "from_interface", "enumerate", "open_or_create", "http_get",
               "get_by_name", "reconcile", "apply", "update_hosts_file", "store", "sleep"}
    /\ exit_code \in {{}, {0}, {1}, {101}}
    /\ cycles \in 0..MaxCycles

(***************************************************************************)
(* Vocabulary of the properties.                                           *)
(***************************************************************************)
\* this cycle has computed its device configuration (lines 299-347 are done)
Reconciled ==
    \/ pc \in {"apply", "update_hosts_file", "store", "sleep"}
    \/ pc = "idle" /\ exit_code = {0}
    \/ pc = "idle" /\ error \in {"apply", "update_hosts_file", "store"}

\* this cycle's fetch returned Ok
Completed == pc = "sleep" \/ (pc = "idle" /\ exit_code = {0})

\* the desired peers after the filter, as the configurations they ask for
FilteredDesired == {MkPeerConfig(p.public_key, p) : p \in Range(Filtered(peers, InterfaceKey))}

UniqueDesiredKeys ==
    \A i, j \in 1..Len(peers) : peers[i].public_key = peers[j].public_key => i = j

\* the positions of the plan's entries of one kind for one key
Entries(text, key) ==
    {i \in 1..Len(device_config.peers) :
        device_config.peers[i].text = text /\ device_config.peers[i].public_key = key}

PlanIsEmpty == device_config.peers = <<>> /\ device_config.remove = {}

(***************************************************************************)
(* C1. Idempotence of one fetch cycle: when the desired peers that are not *)
(* disabled and not the interface itself are, attribute for attribute, the *)
(* peers configured on the device, the plan is empty and the cycle makes no *)
(* device-apply call.                                                      *)
(***************************************************************************)
C1_Idempotent ==
    (Reconciled /\ FilteredDesired = existing_peers)
        => (PlanIsEmpty /\ ~Called(calls, "apply"))

C1_Witness ==
    /\ Completed
    /\ FilteredDesired = existing_peers
    /\ Cardinality(existing_peers) = 1
    /\ Len(peers) = 2

(***************************************************************************)
(* C2. Completeness and exclusivity of the plan, for a desired list with   *)
(* unique public keys (the device holds one peer per key).  For every key: *)
(* a wanted peer (not disabled, not the interface) absent from the device  *)
(* is one "added" entry carrying all its attributes; a wanted peer on the  *)
(* device with a differing attribute is one "modified" entry carrying      *)
(* exactly the differing attributes with the desired values; a device peer *)
(* whose key no entry of the desired list carries is removed; nothing else *)
(* is in the plan, and no key is in two of the three kinds.                *)
(***************************************************************************)
C2_PlanForKey(k) ==
    LET want == {p \in Range(peers) : Wanted(p, InterfaceKey) /\ p.public_key = k}
        have == {e \in existing_peers : e.public_key = k}
        listed == \E p \in Range(peers) : p.public_key = k
        adds == Entries("added", k)
        mods == Entries("modified", k)
        differing(p, e) == {f \in Fields : p[f] # e[f]}
    IN  /\ Cardinality(adds) = IF want # {} /\ have = {} THEN 1 ELSE 0
        /\ \A i \in adds : \A p \in want :
              device_config.peers[i].fields = [f \in Fields |-> p[f]]
        /\ Cardinality(mods) =
              IF \E p \in want, e \in have : differing(p, e) # {} THEN 1 ELSE 0
        /\ \A i \in mods : \A p \in want, e \in have :
              device_config.peers[i].fields = [f \in differing(p, e) |-> p[f]]
        /\ (k \in device_config.remove) <=> (have # {} /\ ~listed)
        /\ Cardinality(adds) + Cardinality(mods)
              + (IF k \in device_config.remove THEN 1 ELSE 0) <= 1

C3_DisabledPeerRemoved ==
    Reconciled =>
        \A p \in Range(peers) :
            (p.is_disabled /\ ExistingPeer(existing_peers, p.public_key) # {})
                => p.public_key \in device_config.remove

(***************************************************************************)
(* C4. A desired peer with the disabled flag is never the subject of an    *)
(* "added" or "modified" entry; a key that only disabled entries carry is  *)
(* in no such entry; with an empty device and a desired list of disabled   *)
(* peers only, the plan is empty.                                          *)
(***************************************************************************)
C4_DisabledNeverAddedOrModified ==
    Reconciled =>
        /\ \A i \in 1..Len(device_config.peers) : ~device_config.peers[i].peer.is_disabled
        /\ \A k \in Keys :
              (\A p \in Range(peers) : p.public_key = k => p.is_disabled)
                  => Entries("added", k) \cup Entries("modified", k) = {}
        /\ (existing_peers = {} /\ \A p \in Range(peers) : p.is_disabled) => PlanIsEmpty

C4_Witness ==
    /\ Completed
    /\ \E p, q \in Range(peers) :
          /\ p.is_disabled /\ ExistingPeer(existing_peers, p.public_key) # {}
          /\ ~q.is_disabled /\ Entries("added", q.public_key) # {}

(***************************************************************************)
(* C5. Self-exclusion.  As claimed: a desired peer with the interface's    *)
(* own key is in no mutation of the plan and not in the peer list handed   *)
(* to the hosts update.                                                    *)
(***************************************************************************)
SelfListed == \E p \in Range(peers) : p.public_key = InterfaceKey

\* C5, first part: no added, modified or removed entry carries the interface's key
C5_SelfInNoMutation ==
    (Reconciled /\ SelfListed)
        => /\ \A i \in 1..Len(device_config.peers) :
                 device_config.peers[i].public_key # InterfaceKey
           /\ InterfaceKey \notin device_config.remove

CallsOf(name) == {i \in 1..Len(calls) : calls[i].call = name}

OkBefore(name, i) == \E j \in 1..(i - 1) : calls[j].call = name /\ calls[j].ok

\* C6: the order of the collaborator calls of a cycle
C6_StepOrder ==
    /\ (Reconciled /\ PlanIsEmpty)
          => (CallsOf("apply") = {} /\ CallsOf("update_hosts_file") = {})
    /\ Cardinality(CallsOf("apply")) <= 1
    /\ (Reconciled /\ ~PlanIsEmpty /\ pc # "apply") => Cardinality(CallsOf("apply")) = 1
    /\ \A i \in CallsOf("update_hosts_file") : OkBefore("apply", i)
    /\ \A i \in CallsOf("write") :
          ~PlanIsEmpty => (OkBefore("apply", i) /\ OkBefore("update_hosts_file", i))
    /\ snapshot # before.snapshot => Succeeded(calls, "write")

C6_Witness ==
    /\ Completed
    /\ ~PlanIsEmpty
    /\ calls = <<[call |-> "apply", ok |-> TRUE], [call |-> "update_hosts_file", ok |-> TRUE],
                 [call |-> "write", ok |-> TRUE]>>
    /\ snapshot # before.snapshot

(***************************************************************************)
(* C7. After a cycle that completed, the peers configured on the device    *)
(* are, by key and by every attribute, the desired peers that are not      *)
(* disabled and not the interface itself (stated for desired lists with    *)
(* unique keys and a device that did not hold the interface's own key).    *)
(***************************************************************************)
C7_DeviceMatchesDesired ==
    (Completed /\ UniqueDesiredKeys /\ ExistingPeer(before.device, InterfaceKey) = {})
        => device = FilteredDesired

(***************************************************************************)
(* C8. Convergence across cycles: the plan of a cycle is computed from the *)
(* list it fetched and the device state it read; after a cycle whose apply *)
(* succeeded, a cycle fetching the same list computes an empty plan and    *)
(* calls no apply; after a failed cycle, a completed cycle leaves the      *)
(* device as it would have been had the failed cycle never run.            *)
(***************************************************************************)
\* C8, first part: the plan is the one of this cycle's list and device state
C8_PlanFromFreshState ==
    Reconciled => device_config = DeviceConfig(peers, InterfaceKey, before.device)

\* C8, second part: the same list again gives an empty plan and no apply
C8_SecondCycleIdle ==
    (previous.ran /\ Succeeded(previous.calls, "apply") /\ Reconciled
        /\ peers = previous.peers)
        => (PlanIsEmpty /\ CallsOf("apply") = {})

\* C8, third part: a failed cycle does not change what the next completed
\* cycle leaves on the device
C8_FailedCycleLeavesNoTrace ==
    (previous.ran /\ previous.error # "" /\ Completed)
        => device = ApplyConfig(previous.device,
                                DeviceConfig(peers, InterfaceKey, previous.device))

\* C8: the three parts together
C8_Convergence ==
    /\ C8_PlanFromFreshState
    /\ C8_SecondCycleIdle
    /\ C8_FailedCycleLeavesNoTrace

(***************************************************************************)
(* C9. A failed apply is fatal for the cycle: the error is returned (the   *)
(* process ends with status 1), the hosts update is not called and the     *)
(* persisted snapshot is what it was before the cycle.                     *)
(***************************************************************************)
ApplyFailed == \E i \in CallsOf("apply") : ~calls[i].ok

\* C9: after a failed apply the cycle has returned the error, no hosts update
\* and no write were made, snapshot and device are as before the cycle
C9_ApplyFailureFatal ==
    ApplyFailed
        => /\ error = "apply"
           /\ pc = "idle"
           /\ exit_code = {1}
           /\ CallsOf("update_hosts_file") = {}
           /\ CallsOf("write") = {}
           /\ snapshot = before.snapshot
           /\ device = before.device

C9_Witness ==
    /\ ApplyFailed
    /\ before.snapshot.exists
    /\ before.snapshot.peers # peers
    /\ hosts.written

(***************************************************************************)
(* C10. Abort on cycle failure in daemon mode: once a step of a cycle has  *)
(* failed the loop is left and the process has ended with status 1; the    *)
(* failed process starts no further cycle (a later cycle is the first one  *)
(* of a newly started process).                                            *)
(***************************************************************************)
DaemonFailed == command = "daemon" /\ error # ""

\* C10: a failed daemon cycle ends the process with status 1 and the process
\* starts no further cycle
C10_AbortOnFailure ==
    /\ [](DaemonFailed => (pc = "idle" /\ exit_code = {1}))
    /\ [][(DaemonFailed /\ cycles' # cycles) => \E cmd \in {"fetch", "up", "daemon"} : Run(cmd)]_vars

C10_Witness ==
    /\ DaemonFailed
    /\ error = "update_hosts_file"
    /\ previous.ran
    /\ previous.error = ""
    /\ cycles < MaxCycles

(***************************************************************************)
(* C11. Sequential control loop: a cycle starts only when none is in       *)
(* progress; in daemon mode the loop starts a further cycle only after the *)
(* cycle before it succeeded through its write of the snapshot and the     *)
(* interval has been slept, and after each successful cycle it does start  *)
(* the next one; without daemon mode the process runs one cycle and ends.  *)
(***************************************************************************)
LastCallWritten == calls # <<>> /\ calls[Len(calls)] = [call |-> "write", ok |-> TRUE]

\* the loop of a running process starts a cycle (not the first cycle of a process)
LoopStartsCycle == cycles' # cycles /\ pc # "idle"

\* C11: cycles are sequential, the daemon loop goes on after each success and
\* only then, a process without daemon mode runs exactly one cycle
C11_SequentialLoop ==
    /\ [][cycles' # cycles => pc \in {"idle", "sleep"}]_vars
    /\ [][LoopStartsCycle =>
            (pc = "sleep" /\ command = "daemon" /\ error = "" /\ LastCallWritten)]_vars
    /\ [](pc = "sleep" => (command = "daemon" /\ error = "" /\ LastCallWritten))
    /\ []((command = "daemon" /\ Succeeded(calls, "write")) => pc = "sleep")
    /\ []((command \in {"fetch", "up"} /\ Succeeded(calls, "write"))
            => (pc = "idle" /\ exit_code = {0}))
    /\ \A n \in 0..(MaxCycles - 1) :
          (pc = "sleep" /\ cycles = n) ~> (pc = "from_interface" /\ cycles = n + 1)

\* a daemon that has started its third cycle in a row
C11_Witness ==
    /\ command = "daemon"
    /\ pc = "from_interface"
    /\ cycles = MaxCycles
    /\ previous.ran
    /\ previous.error = ""
    /\ Succeeded(previous.calls, "write")
    /\ before.snapshot.exists

(***************************************************************************)
(* C12. Snapshot replacement: after every cycle that completed, with an    *)
(* empty plan or not, the persisted snapshot holds exactly the peer list   *)
(* and the CIDR list this cycle fetched, unfiltered and in fetch order;    *)
(* nothing of the snapshot before the cycle is kept, and an empty fetched  *)
(* list leaves an empty list in the snapshot.                              *)
(***************************************************************************)
C12_SnapshotReplaced ==
    Completed
        => /\ snapshot.exists
           /\ snapshot.peers = peers
           /\ snapshot.cidrs = cidrs
           /\ (peers = <<>> => snapshot.peers = <<>>)
           /\ (cidrs = <<>> => snapshot.cidrs = <<>>)

\* an empty-plan cycle that fetched empty lists over a snapshot with a
\* disabled peer and two CIDRs
C12_Witness ==
    /\ Completed
    /\ PlanIsEmpty
    /\ peers = <<>>
    /\ cidrs = <<>>
    /\ Len(before.snapshot.cidrs) = 2
    /\ \E i \in 1..Len(before.snapshot.peers) : before.snapshot.peers[i].is_disabled

(***************************************************************************)
(* C13. The peer list handed to the hosts update.  As claimed: it is the   *)
(* filtered desired list, every peer that is not disabled and not the      *)
(* interface itself and no disabled peer.                                  *)
(***************************************************************************)
HostsUpdated == Succeeded(calls, "update_hosts_file")

CycleEnded == cycles > 0 /\ pc \in {"idle", "sleep"}

\* the change lines of a plan: one per entry, one per removed key
LinesOf(config) ==
    [changes |-> [i \in 1..Len(config.peers) |->
                    [text |-> config.peers[i].text,
                     name |-> {config.peers[i].peer.name},
                     key |-> SubSeq(KeyText(config.peers[i].public_key), 1, FingerprintLen)]],
     removed |-> {[text |-> "removed", name |-> {},
                   key |-> SubSeq(KeyText(k), 1, FingerprintLen)] : k \in config.remove}]

\* C14: after a cycle, the printed change lines are the mutations it applied
C14_LinesMatchApplied ==
    CycleEnded
        => IF Succeeded(calls, "apply")
           THEN output = LinesOf(device_config) /\ device = ApplyConfig(before.device, device_config)
           ELSE output = NoOutput

(***************************************************************************)
(* C15. Key fingerprint only.  As claimed: every change line names the     *)
(* peer by its name and by the first 10 characters of its public key, and  *)
(* no line holds more than the first 10 characters of a public key.        *)
(***************************************************************************)
\* the line holds the first 10 characters of this key and no more
FingerprintOf(line, public_key) ==
    /\ Len(line.key) = FingerprintLen
    /\ Len(line.key) < Len(KeyText(public_key))
    /\ \A n \in 1..FingerprintLen : line.key[n] = KeyText(public_key)[n]

NamedLine(line, list) ==
    \E p \in Range(list) : line.name = {p.name} /\ FingerprintOf(line, p.public_key)

\* C15 as claimed: every change line, removals included, holds the name of a
\* peer and the first 10 characters of its key
C15_NameAndFingerprint ==
    /\ \A i \in 1..Len(output.changes) : NamedLine(output.changes[i], peers)
    /\ \A line \in output.removed :
          \E e \in existing_peers : line.name # {} /\ FingerprintOf(line, e.public_key)

\* C15 as amended: an added or modified line holds the name of its peer and
\* the first 10 characters of its key; a removed line holds the first 10
\* characters of the key of a peer of the device and no name; the lines of a
\* plan are those of its entries and of its removed keys
C15_FingerprintOnly ==
    /\ \A i \in 1..Len(output.changes) :
          /\ output.changes[i].text \in {"added", "modified"}
          /\ NamedLine(output.changes[i], Filtered(peers, InterfaceKey))
    /\ \A line \in output.removed :
          /\ line.text = "removed"
          /\ line.name = {}
          /\ \E e \in existing_peers : FingerprintOf(line, e.public_key)
    /\ Reconciled =>
          /\ Len(output.changes) = Len(device_config.peers)
          /\ \A i \in 1..Len(output.changes) :
                /\ output.changes[i].text = device_config.peers[i].text
                /\ output.changes[i].name = {Names[device_config.peers[i].public_key]}
                /\ FingerprintOf(output.changes[i], device_config.peers[i].public_key)
          /\ Cardinality(output.removed) = Cardinality(device_config.remove)
          /\ \A k \in device_config.remove :
                \E line \in output.removed : FingerprintOf(line, k)

\* a plan with an added line, a modified line and a removed line
C15_Witness ==
    /\ Reconciled
    /\ \E i, j \in 1..Len(output.changes) :
          output.changes[i].text = "added" /\ output.changes[j].text = "modified"
    /\ output.removed # {}

(***************************************************************************)
(* C16. Validation before mutation: a fetched list with a public key in    *)
(* two entries, or with two peers that are not disabled on one address,    *)
(* fails the cycle before a mutation is computed: no change line, no plan, *)
(* no apply, no write of the snapshot.                                     *)
(***************************************************************************)
AddressCollision ==
    \E i, j \in 1..Len(peers) :
        /\ i # j
        /\ ~peers[i].is_disabled /\ ~peers[j].is_disabled
        /\ peers[i].allowed_ips = peers[j].allowed_ips

InvalidDesired == ~UniqueDesiredKeys \/ AddressCollision

\* C16: an invalid fetched list leaves no trace of a plan and the cycle does
\* not complete
C16_ValidationBeforeMutation ==
    InvalidDesired
        => /\ output = NoOutput
           /\ device_config = NoConfig
           /\ CallsOf("apply") = {}
           /\ CallsOf("write") = {}
           /\ ~Completed
           /\ device = before.device
           /\ snapshot = before.snapshot

(***************************************************************************)
(* C17. Display ordering of show.  As claimed: show lists the peers with   *)
(* the later last handshake first, the peers without a handshake behind    *)
(* all peers with one, and peers with the same handshake time by ascending *)
(* internal address (P1 with handshake 100 at 10.0.0.2, P2 with 200 at     *)
(* 10.0.0.3, P3 without one at 10.0.0.1 are listed P2, P1, P3).            *)
(***************************************************************************)
\* show has listed the peers of the device
PeersListed == shown.status = "ok" /\ shown.interface # <<>> /\ shown.tree = <<>>

\* the public key of the peer of a printed line (the keys of the model differ
\* in their first character)
ListedKey(i) == shown.peers[i].key[1]

ListedHandshake(i) == handshakes[ListedKey(i)]

ListedAddress(i) ==
    IpNumber((CHOOSE p \in OurPeer(snapshot.peers, ListedKey(i)) : TRUE).allowed_ips)

ExampleOfOrdering ==
    /\ {p.public_key : p \in device} = ShowKeys
    /\ handshakes = [k \in ShowKeys |->
                        CASE k = "k1" -> {100} [] k = "k2" -> {200} [] k = "k3" -> {}]
    /\ snapshot.exists
    /\ snapshot.peers = ShowList([k \in ShowKeys |->
                            CASE k = "k1" -> "10.0.0.2" [] k = "k2" -> "10.0.0.3"
                              [] k = "k3" -> "10.0.0.1"])

\* show has printed the tree of the CIDRs
TreePrinted == shown.status = "ok" /\ shown.tree # <<>>

\* the lines of the tree that are peers of the device
TreePeers ==
    SelectSeq(shown.tree,
              LAMBDA line : "ip" \in DOMAIN line
                              /\ \E p \in device : Names[p.public_key] = line.name)

\* the place of the peer of a line in the stored list
StoredAt(line) == CHOOSE n \in 1..Len(snapshot.peers) : snapshot.peers[n].name = line.name

TreeHandshake(i) == handshakes[snapshot.peers[StoredAt(TreePeers[i])].public_key]

AddressSet(network) ==
    {a \in 0..(Pow2(AddrBits) - 1) :
        a \div Pow2(AddrBits - network.prefix)
            = network.addr \div Pow2(AddrBits - network.prefix)}

TreeBuilt == shown.status = "ok" /\ shown.cidr_tree # <<>>

\* C18: containment, smallest container and disjoint siblings in the built tree
C18_TreeContainment ==
    TreeBuilt =>
        LET built == shown.cidr_tree
            places == 1..Len(built)
            range == [i \in places |-> AddressSet(built[i].node.cidr)]
            inside == [i \in places |->
                         {j \in places : range[i] \subseteq range[j] /\ range[i] # range[j]}]
        IN  /\ [i \in places |-> built[i].node] = snapshot.cidrs
            /\ \A i \in places :
                  /\ Cardinality(built[i].parent) <= 1
                  /\ \A parent \in built[i].parent :
                        \E p \in inside[i] :
                           /\ built[p].node = parent
                           /\ \A c \in inside[i] :
                                 Cardinality(range[p]) <= Cardinality(range[c])
                  /\ built[i].parent = {} => inside[i] = {}
            /\ \A i, j \in places :
                  (i # j /\ built[i].parent = built[j].parent)
                     => range[i] \cap range[j] = {}

\* a built tree with a node whose parent has a parent
C18_Witness ==
    /\ TreeBuilt
    /\ \E i, j \in 1..Len(shown.cidr_tree) :
          /\ shown.cidr_tree[i].parent = {shown.cidr_tree[j].node}
          /\ shown.cidr_tree[j].parent # {}

\* a built tree with two siblings under one parent
C18_WitnessSiblings ==
    /\ TreeBuilt
    /\ \E i, j \in 1..Len(shown.cidr_tree) :
          /\ i # j
          /\ shown.cidr_tree[i].parent = shown.cidr_tree[j].parent
          /\ shown.cidr_tree[i].parent # {}

(***************************************************************************)
(* C19. The removal rule is keyed on the unfiltered fetched list: a peer   *)
(* of the device is removed exactly when no entry of the fetched list      *)
(* carries its public key; the entries of disabled peers and the entry of  *)
(* the interface itself count; with an empty fetched list every peer of    *)
(* the device is removed.                                                  *)
(***************************************************************************)
ListedKeys == {peers[i].public_key : i \in 1..Len(peers)}

\* C19: removed are the keys of the device that the fetched list does not hold
C19_RemoveIffUnlisted ==
    Reconciled
        => /\ \A e \in existing_peers :
                 e.public_key \in device_config.remove <=> e.public_key \notin ListedKeys
           /\ device_config.remove \subseteq {e.public_key : e \in existing_peers}
           /\ \A i \in 1..Len(peers) :
                 (peers[i].is_disabled \/ peers[i].public_key = InterfaceKey)
                    => peers[i].public_key \notin device_config.remove
           /\ peers = <<>> => device_config.remove = {e.public_key : e \in existing_peers}

\* a plan that removes one peer of the device and keeps the other, listed as
\* disabled
C19_Witness ==
    /\ Reconciled
    /\ Cardinality(existing_peers) = 2
    /\ Cardinality(device_config.remove) = 1
    /\ \E i \in 1..Len(peers) :
          /\ peers[i].is_disabled
          /\ ExistingPeer(existing_peers, peers[i].public_key) # {}

(***************************************************************************)
(* C20. A failed hosts update after a successful apply: the cycle returns  *)
(* the error (the process ends with status 1), the snapshot is not written *)
(* and holds what it held before the cycle, and the mutations applied to   *)
(* the device stay applied.                                                *)
(***************************************************************************)
HostsFailed == \E i \in CallsOf("update_hosts_file") : ~calls[i].ok

\* C20: after a failed hosts update the error is returned, no write is made,
\* the snapshot is as before the cycle and the device holds the applied plan
C20_HostsFailureKeepsDevice ==
    HostsFailed
        => /\ error = "update_hosts_file"
           /\ pc = "idle"
           /\ exit_code = {1}
           /\ Succeeded(calls, "apply")
           /\ CallsOf("write") = {}
           /\ snapshot = before.snapshot
           /\ device = ApplyConfig(before.device, device_config)
           /\ ~PlanIsEmpty

\* a failed hosts update over an older snapshot, the device changed by the plan
C20_Witness ==
    /\ HostsFailed
    /\ before.snapshot.exists
    /\ before.snapshot.peers # peers
    /\ device # before.device

(***************************************************************************)
(* C21. The traversal of print_tree, started at the root of the built tree *)
(* with level L: every node of the tree under the root is printed exactly  *)
(* once and no other CIDR is; a node is printed before each of its         *)
(* descendants; the root is printed at level L and a child one level       *)
(* deeper than its parent; every peer of the snapshot whose cidr_id is the *)
(* id of a node of the tree is printed exactly once, at the level of that  *)
(* node, after the node and before any line that belongs neither to the    *)
(* node nor to one of its descendants; a peer whose CIDR is not in the     *)
(* tree is not printed; the output is finite, one line per node and per    *)
(* peer printed.                                                           *)
(***************************************************************************)
\* the levels print_tree is started with (show starts it with 1, line 592)
Levels == 0..2

IsCidrLine(line) == "cidr" \in DOMAIN line

\* the places of the built tree on the way from a place up to its root
RECURSIVE AncestorPlaces(_, _)
AncestorPlaces(i, built) ==
    LET up == {j \in 1..Len(built) : built[i].parent = {built[j].node}} IN
    up \cup UNION {AncestorPlaces(j, built) : j \in up}

\* out is the traversal of the tree under the node at place root, started
\* with this level
Traversal(out, root, built, store_peers, level) ==
    LET places == 1..Len(built)
        above == [i \in places |-> AncestorPlaces(i, built)]
        under == {i \in places : i = root \/ root \in above[i]}
        lines == 1..Len(out)
        at == [i \in places |->
                 {n \in lines : /\ IsCidrLine(out[n])
                                /\ out[n].cidr = built[i].node.cidr
                                /\ out[n].name = built[i].node.name}]
        printed == [k \in 1..Len(store_peers) |->
                      {n \in lines : /\ ~IsCidrLine(out[n])
                                     /\ out[n].name = store_peers[k].name
                                     /\ out[n].ip = store_peers[k].allowed_ips}]
        owners == [k \in 1..Len(store_peers) |->
                     {i \in under : built[i].node.id = store_peers[k].cidr_id}]
        \* the lines of a node: its own and those of its peers
        belongs == [i \in places |->
                      at[i] \cup UNION {printed[k] : k \in {k \in 1..Len(store_peers) :
                                                              i \in owners[k]}}]
    IN  /\ \A i \in places : Cardinality(at[i]) = IF i \in under THEN 1 ELSE 0
        /\ \A i, j \in under : i \in above[j] => \A n \in at[i], m \in at[j] : n < m
        /\ \A n \in at[root] : out[n].level = level
        /\ \A i, j \in under :
              built[j].parent = {built[i].node}
                 => \A n \in at[i], m \in at[j] : out[m].level = out[n].level + 1
        /\ \A k \in 1..Len(store_peers) :
              /\ Cardinality(printed[k]) = IF owners[k] = {} THEN 0 ELSE 1
              /\ \A i \in owners[k] : \A n \in at[i], m \in printed[k] :
                    /\ out[m].level = out[n].level
                    /\ n < m
                    /\ \A between \in (n + 1)..(m - 1) :
                          \E j \in under : /\ j = i \/ i \in above[j]
                                           /\ between \in belongs[j]
        /\ Len(out) = Cardinality(under)
                        + Cardinality({k \in 1..Len(store_peers) : owners[k] # {}})

\* the lines of a traversal started at level 1, as started at another level
Shifted(out, level) == [n \in 1..Len(out) |-> [out[n] EXCEPT !.level = @ + level - 1]]

\* C21: what show --tree printed is the traversal of the built tree from one
\* of its roots at level 1, and print_tree from that root at another level
\* prints the same lines, each as much deeper as the start
C21_TreeTraversal ==
    TreePrinted =>
        LET built == shown.cidr_tree IN
        \E root \in 1..Len(built) :
            /\ built[root].parent = {}
            /\ shown.tree = PrintTree(built[root].node, built, snapshot.peers, 1)
            /\ Traversal(shown.tree, root, built, snapshot.peers, 1)
            /\ \A level \in Levels :
                  PrintTree(built[root].node, built, snapshot.peers, level)
                      = Shifted(shown.tree, level)

\* a tree three levels deep was printed, with peers under the root and under
\* its child
C21_Witness ==
    /\ TreePrinted
    /\ \E a, b, c \in 1..Len(shown.tree) :
          /\ a < b /\ b < c
          /\ IsCidrLine(shown.tree[a]) /\ shown.tree[a].level = 1
          /\ IsCidrLine(shown.tree[b]) /\ shown.tree[b].level = 2
          /\ IsCidrLine(shown.tree[c]) /\ shown.tree[c].level = 3
    /\ \E m, n \in 1..Len(shown.tree) :
          /\ ~IsCidrLine(shown.tree[m]) /\ shown.tree[m].level = 1
          /\ ~IsCidrLine(shown.tree[n]) /\ shown.tree[n].level = 2

\* a tree was printed whose root has two children, and a CIDR of the snapshot
\* outside the printed tree
C21_WitnessSiblings ==
    /\ TreePrinted
    /\ Cardinality({n \in 1..Len(shown.tree) :
                      IsCidrLine(shown.tree[n]) /\ shown.tree[n].level = 2}) = 2
    /\ Len(snapshot.cidrs) = 3

(***************************************************************************)
(* C22. The guard of fetch on an interface that is not up.  A cycle of the *)
(* Fetch command (bring-up not permitted) that does not find the interface *)
(* among the enumerated devices returns an error at once: the process ends *)
(* with status 1, nothing has been fetched from the authority, no apply,   *)
(* no hosts update and no snapshot write is made, and the device, the      *)
(* snapshot, the hosts file and the interface are as they were.  A cycle   *)
(* of Fetch goes on to fetch only with the interface up.  A cycle of Up    *)
(* (bring-up permitted) that does not find the interface brings it up      *)
(* before anything else and goes on to open the store with the interface   *)
(* up; only an error of the bring-up itself ends it.                       *)
(***************************************************************************)
\* up to the guard the cycle has fetched nothing and made no call
NothingDoneYet ==
    /\ peers = <<>>
    /\ cidrs = <<>>
    /\ existing_peers = {}
    /\ device_config = NoConfig
    /\ calls = <<>>
    /\ device = before.device
    /\ snapshot = before.snapshot

\* the cycle was ended by the guard
GuardHit == error = "interface_not_up"

\* the cycle is past the guard
PastGuard ==
    pc \in {"open_or_create", "http_get", "get_by_name", "reconcile", "apply",
            "update_hosts_file", "store"}

\* C22: the guard ends a Fetch cycle without any effect, Up brings the
\* interface up first
C22_InterfaceDownGuard ==
    /\ [](pc \in {"from_interface", "enumerate"} => NothingDoneYet)
    /\ [][(pc = "from_interface" /\ pc' # "from_interface")
            => UNCHANGED <<persistent, peers, cidrs, calls>>]_vars
    /\ [][(pc = "enumerate" /\ pc' # "enumerate" /\ command = "fetch")
            => /\ UNCHANGED <<persistent, peers, cidrs, calls>>
               /\ \/ interface_up /\ pc' = "open_or_create"
                  \/ GuardHit' /\ pc' = "idle" /\ exit_code' = {1}
               /\ ~interface_up => GuardHit']_vars
    /\ [](GuardHit => (command = "fetch" /\ pc = "idle" /\ exit_code = {1}
                         /\ NothingDoneYet))
    /\ [](PastGuard => interface_up)
    /\ [][(pc = "enumerate" /\ pc' # "enumerate" /\ command \in {"up", "daemon"})
            => /\ UNCHANGED <<device, snapshot, hosts, peers, cidrs, calls>>
               /\ \/ interface_up' /\ pc' = "open_or_create" /\ error' = ""
                  \/ /\ error' = "wg_up" /\ pc' = "idle" /\ exit_code' = {1}
                     /\ UNCHANGED interface_up]_vars
    /\ []((command \in {"up", "daemon"} /\ pc = "idle" /\ exit_code = {1}
             /\ ~interface_up) => error \in {"from_interface", "wg_up"})

\* a Fetch ended by the guard: the interface is down, the device has peers
C22_Witness ==
    /\ GuardHit
    /\ command = "fetch"
    /\ ~interface_up
    /\ device # {}
    /\ exit_code = {1}

\* an Up that has written the snapshot after a Fetch the guard had ended
C22_WitnessUp ==
    /\ command = "up"
    /\ previous.ran
    /\ previous.error = "interface_not_up"
    /\ interface_up
    /\ Succeeded(calls, "write")

(***************************************************************************)
(* C23. show is read-only: it opens the snapshot with open, which creates  *)
(* nothing; for an interface without a persisted snapshot it prints        *)
(* nothing and ends with status 0; and however it ends (printed, error or  *)
(* panic) the persisted snapshot, the peers configured on the device, the  *)
(* hosts file and the state of the interface are what they were.           *)
(***************************************************************************)
\* C23: a step of show changes nothing that is persistent, and without a
\* snapshot nothing is shown
C23_ShowReadOnly ==
    /\ [][command' = "show" => UNCHANGED <<device, interface_up, snapshot, hosts>>]_vars
    /\ []((command = "show" /\ ~snapshot.exists)
            => (shown = [NotShown EXCEPT !.status = "ok"] /\ exit_code = {0}))
    /\ []((command = "show" /\ shown.interface # <<>>) => snapshot.exists)

\* show has printed two peers of a device from the snapshot
C23_Witness ==
    /\ command = "show"
    /\ shown.status = "ok"
    /\ Len(shown.peers) = 2
    /\ snapshot.exists
    /\ Cardinality(device) = 2

\* show has run on a device with peers and without snapshot
C23_WitnessNoSnapshot ==
    /\ command = "show"
    /\ ~snapshot.exists
    /\ device # {}
    /\ exit_code = {0}

====
